---- MODULE Spec2Model ----
(***************************************************************************)
(* Verification model of wx_logs: the time-of-wetness accumulator          *)
(* (wx_logs/tow_calculator.py, class TOWCalculator) and the hourly grid    *)
(* (wx_logs/hourly_grid.py, class HourlyGrid).                             *)
(*                                                                         *)
(* Representation choices                                                  *)
(*   - a Python dict is a TLA+ function whose DOMAIN is the set of keys;   *)
(*   - a Python list is a sequence; a year's dict of hour slots, whose     *)
(*     keys stay in insertion order, is the sequence of its rows;          *)
(*   - a sample value is written in tenths: the integer v stands for the   *)
(*     Python number with the decimal literal v/10 (250 is 25, 1 is 0.1);  *)
(*     its float64 value is kept exactly, as sign and magnitude in units   *)
(*     of 2^-56, and float64 addition rounds to 53 bits, ties to even;     *)
(*   - a float that is the quotient of two integers is kept as the exact   *)
(*     fraction [num, den]; every comparison the code makes on such a      *)
(*     float is between quotients of integers below 2^14, whose distance   *)
(*     from the compared constant is either 0 or far above one ulp, so     *)
(*     the comparison of the fractions gives the code's answer;            *)
(*   - a float rounded to 2 decimals is kept as an integer number of       *)
(*     hundredths ("cents");                                               *)
(*   - None is the record [type |-> "NoneType"].                           *)
(***************************************************************************)
EXTENDS Integers, Sequences, FiniteSets, Bags, TLC

VARIABLES
  _data,   \* TOWCalculator._data
  ret,     \* outcome of the most recent call: its return value or exception
  calls,   \* history: the bag of the ingestion calls that have succeeded
  hours,            \* HourlyGrid.hours
  _start,           \* HourlyGrid._start
  _end,             \* HourlyGrid._end
  _default_value,   \* HourlyGrid._default_value
  _is_empty,        \* HourlyGrid._is_empty
  added,   \* history: the HourlyGrid.add calls made, in order
  adequate_threshold,  \* YearCoverageAnalyzer.adequate_threshold
  filled   \* history: the set of the ingestion loops over days made

vars ==
  <<_data, ret, calls, hours, _start, _end, _default_value, _is_empty, added,
    adequate_threshold, filled>>

\* the variables of the TOWCalculator, those of the HourlyGrid and the one of
\* the YearCoverageAnalyzer
tow_vars == <<_data, calls>>
grid_vars == <<hours, _start, _end, _default_value, _is_empty, added>>
coverage_vars == <<adequate_threshold, filled>>

(***************************************************************************)
(* Bounds and input sets                                                   *)
(***************************************************************************)
\* number of successful ingestion calls (single adds and ingestion loops)
MaxCalls == 3

\* sample values offered to add_temperature / add_humidity, in tenths:
\* -10.1 and 0.1 degrees, 70 and 90 percent
Temps == {-101, 1}
Hums == {700, 900}

None == [type |-> "NoneType"]

\* datetime.datetime(year, month, day, hour, minute)
datetime(y, mo, d, h, mi) ==
  [type |-> "datetime", year |-> y, month |-> mo, day |-> d, hour |-> h, minute |-> mi]

\* timestamps offered to the single add calls: the hour of index 6570 of 2019
Stamps == { datetime(2019, 10, 1, 18, 32) }

\* arguments that are not datetime.datetime instances: datetime.date(2021, 6, 15)
\* (a date has no hour and no minute; the fields are never read)
NotDatetimes ==
  { [type |-> "date", year |-> 2021, month |-> 6, day |-> 15, hour |-> 0, minute |-> 0] }

\* the ingestion loops offered, in the form of the loops of the tests: `hours`
\* consecutive hours from 1 January 00:00 of `year`, temperature t in every
\* hour, humidity rh_even in the hours of even index and rh_odd in the others
\* (values in tenths): three quarters of 2019 all wet, 80% of 2019 and of the
\* leap year 2020 alternating wet and dry, 6570 hours of the century year 2100
Loops ==
  { [year |-> 2019, hours |-> 6570, t |-> 250, rh_even |-> 1000, rh_odd |-> 1000],
    [year |-> 2019, hours |-> 7008, t |-> 100, rh_even |-> 900, rh_odd |-> 100],
    [year |-> 2020, hours |-> 7008, t |-> 100, rh_even |-> 900, rh_odd |-> 100],
    [year |-> 2100, hours |-> 6570, t |-> 250, rh_even |-> 1000, rh_odd |-> 1000] }

\* number of HourlyGrid.add calls
MaxAdds == 3

\* a Python int and a float holding a whole number
int(n) == [type |-> "int", val |-> n]
float(x) == [type |-> "float", val |-> x.val]

\* timestamps offered to HourlyGrid.add: two in the last hour of 2021 and one
\* in the second hour of 2022
GridStamps ==
  { datetime(2021, 12, 31, 23, 0), datetime(2021, 12, 31, 23, 20),
    datetime(2022, 1, 1, 1, 0) }

\* values offered to HourlyGrid.add
GridValues == << None, int(0), int(5), int(10) >>

\* the (start, end) arguments offered to the aggregates: none, and the two
\* calendar years as get_total_by_year_detailed passes them
Ranges ==
  << [start |-> None, end |-> None],
     [start |-> datetime(2021, 1, 1, 0, 0), end |-> datetime(2021, 12, 31, 23, 0)],
     [start |-> datetime(2022, 1, 1, 0, 0), end |-> datetime(2022, 12, 31, 23, 0)] >>

\* number of ingestion loops over spans of days
MaxSpans == 3

\* the values of adequate_threshold offered to the constructor: the default
\* and the high threshold of the tests
Thresholds == {75, 90}

\* the ingestion loops over days offered, in the form of the loops of the
\* coverage tests: `days` consecutive days from day `first` of `year` (0 is
\* 1 January), a reading at every hour that is a multiple of `every`, of the
\* temperature 25.0, of the humidity 85.0, or of both: 2021 once a day, the
\* leap year 2024 hourly, the first 90 days of 2021 hourly, 2 March to 30
\* November hourly, and the temperature over the year with the humidity from
\* 2 March to 30 November, both hourly
Spans ==
  { [year |-> 2021, first |-> 0, days |-> 365, every |-> 24, metric |-> "both"],
    [year |-> 2024, first |-> 0, days |-> 366, every |-> 1, metric |-> "both"],
    [year |-> 2021, first |-> 0, days |-> 90, every |-> 1, metric |-> "both"],
    [year |-> 2021, first |-> 60, days |-> 274, every |-> 1, metric |-> "both"],
    [year |-> 2021, first |-> 0, days |-> 365, every |-> 1, metric |-> "temperature"],
    [year |-> 2021, first |-> 60, days |-> 274, every |-> 1, metric |-> "humidity"] }

\* the (year, metric) arguments offered to the coverage queries
CoverageYears == {2021, 2024}
Metrics == {"temperature", "humidity"}

\* the timestamp lists offered to analyze_coverage, as the first and the last
\* day of a range of days of one year: the ranges of the threshold tests, a
\* whole leap year, its February, and the empty list (last before first)
DateRanges ==
  { [start |-> datetime(2023, 1, 1, 12, 0), end |-> datetime(2023, 12, 13, 12, 0)],
    [start |-> datetime(2023, 1, 1, 12, 0), end |-> datetime(2023, 8, 29, 12, 0)],
    [start |-> datetime(2023, 1, 1, 12, 0), end |-> datetime(2023, 5, 26, 12, 0)],
    [start |-> datetime(2024, 1, 1, 12, 0), end |-> datetime(2024, 12, 31, 12, 0)],
    [start |-> datetime(2024, 2, 1, 12, 0), end |-> datetime(2024, 2, 29, 12, 0)],
    [start |-> datetime(2023, 1, 2, 12, 0), end |-> datetime(2023, 1, 1, 12, 0)] }

\* the days from month m1, day d1 to month m2, day d2 of a year, at an hour
days_from_to(year, m1, d1, m2, d2, hour) ==
  [start |-> datetime(year, m1, d1, hour, 0), end |-> datetime(year, m2, d2, hour, 0)]

\* the timestamp lists offered to analyze_coverage, each the concatenation
\* of ranges of days: the ranges above, a whole regular year, the summer
\* months, one day, the lists with gaps, the lists with missing months, the
\* weeks at the two ends of the year, a list across three years, and a list
\* with two timestamps on a day
DateLists ==
  { <<r>> : r \in DateRanges } \cup
  { <<days_from_to(2023, 1, 1, 12, 31, 12)>>,
    <<days_from_to(2023, 6, 1, 8, 31, 12)>>,
    <<days_from_to(2023, 6, 15, 6, 15, 12)>>,
    <<days_from_to(2023, 1, 1, 1, 31, 12), days_from_to(2023, 11, 1, 11, 30, 12)>>,
    <<days_from_to(2023, 1, 1, 1, 3, 12), days_from_to(2023, 1, 8, 1, 9, 12),
      days_from_to(2023, 2, 1, 2, 3, 12)>>,
    <<days_from_to(2023, 1, 1, 1, 31, 12), days_from_to(2023, 3, 1, 3, 31, 12),
      days_from_to(2023, 12, 1, 12, 31, 12)>>,
    <<days_from_to(2023, 4, 1, 4, 30, 12), days_from_to(2023, 10, 1, 10, 31, 12)>>,
    <<days_from_to(2023, 1, 1, 1, 7, 12), days_from_to(2023, 12, 25, 12, 31, 12)>>,
    <<days_from_to(2022, 12, 30, 12, 31, 12), days_from_to(2023, 1, 1, 1, 3, 12),
      days_from_to(2024, 1, 1, 1, 2, 12)>>,
    <<days_from_to(2024, 2, 28, 3, 1, 0), days_from_to(2024, 2, 28, 3, 1, 12)>> }

\* the years offered to analyze_coverage
AnalyzedYears == {2023, 2024}

(***************************************************************************)
(* float64: literals, addition, and the mean of a list of readings         *)
(***************************************************************************)
Limb == 2^21

\* float(v/10) for the literals in use: a whole number below 128, 0.1
\* (0x1.999999999999ap-4) and 10.1 (0x1.4333333333333p+3)
float_of(v) ==
  LET m == IF v < 0 THEN -v ELSE v
  IN [neg |-> v < 0,
      mag |-> IF m % 10 = 0 THEN <<(m \div 10) * 2^14, 0, 0>>
              ELSE CASE m = 1 -> <<1638, 838860, 1677722>>
                     [] m = 101 -> <<165478, 838860, 1677696>>]

mag_less(x, y) ==
  \/ x[1] < y[1]
  \/ x[1] = y[1] /\ x[2] < y[2]
  \/ x[1] = y[1] /\ x[2] = y[2] /\ x[3] < y[3]

mag_plus(x, y) ==
  LET c == x[3] + y[3]
      b == x[2] + y[2] + (c \div Limb)
      a == x[1] + y[1] + (b \div Limb)
  IN <<a, b % Limb, c % Limb>>

\* x - y for x >= y
mag_minus(x, y) ==
  LET c == x[3] - y[3]
      b == x[2] - y[2] - (IF c < 0 THEN 1 ELSE 0)
      a == x[1] - y[1] - (IF b < 0 THEN 1 ELSE 0)
  IN <<a, b % Limb, c % Limb>>

\* round a magnitude to 53 significant bits, ties to even
round53(m) ==
  IF m[1] < 2^11 THEN m
  ELSE LET s == CHOOSE k \in 1..12 : 2^(10 + k) <= m[1] /\ m[1] < 2^(11 + k)
           unit == 2^s
           rem == m[3] % unit
           down == <<m[1], m[2], m[3] - rem>>
           odd == (m[3] \div unit) % 2 = 1
       IN IF 2 * rem > unit \/ (2 * rem = unit /\ odd)
          THEN mag_plus(down, <<0, 0, unit>>)
          ELSE down

fl_add(x, y) ==
  IF x.neg = y.neg THEN [neg |-> x.neg, mag |-> round53(mag_plus(x.mag, y.mag))]
  ELSE IF x.mag = y.mag THEN [neg |-> FALSE, mag |-> <<0, 0, 0>>]
  ELSE IF mag_less(x.mag, y.mag)
       THEN [neg |-> y.neg, mag |-> round53(mag_minus(y.mag, x.mag))]
       ELSE [neg |-> x.neg, mag |-> round53(mag_minus(x.mag, y.mag))]

\* np.add.reduce over the first n readings: a running sum from 0.0
RECURSIVE fl_sum(_, _)
fl_sum(readings, n) ==
  IF n = 0 THEN [neg |-> FALSE, mag |-> <<0, 0, 0>>]
  ELSE fl_add(fl_sum(readings, n - 1), float_of(readings[n]))

RECURSIVE Sum(_)
Sum(s) == IF s = <<>> THEN 0 ELSE Head(s) + Sum(Tail(s))

\* np.mean(readings) > c for a non-empty list and c in {0, 80}.  The mean of
\* one reading is the reading.  Sums of whole numbers are exact in float64,
\* and so is the comparison of their quotient with c; with a fractional
\* reading the running sum is rounded at every step (the quotient by the
\* positive length keeps its sign)
mean_gt(readings, c) ==
  IF Len(readings) = 1 THEN readings[1] > 10 * c
  ELSE IF \A i \in 1..Len(readings) : readings[i] % 10 = 0
       THEN Sum(readings) > 10 * c * Len(readings)
       ELSE CASE c = 0 ->
              LET total == fl_sum(readings, Len(readings))
              IN ~total.neg /\ total.mag # <<0, 0, 0>>

\* round(a * b / c, 2) in hundredths, ties to even, without leaving 32 bits
round2(a, b, c) ==
  LET q == (a * b) \div c
      r == (a * b) % c
      h == (r * 100) \div c
      rem == (r * 100) % c
      cents == q * 100 + h
  IN IF 2 * rem > c THEN cents + 1
     ELSE IF 2 * rem < c THEN cents
     ELSE IF cents % 2 = 0 THEN cents ELSE cents + 1

\* round(a * b / c), ties to even
round0(a, b, c) ==
  LET q == (a * b) \div c
      rem == (a * b) % c
  IN IF 2 * rem > c THEN q + 1
     ELSE IF 2 * rem < c THEN q
     ELSE IF q % 2 = 0 THEN q ELSE q + 1

(***************************************************************************)
(* TOWCalculator                                                           *)
(***************************************************************************)
days_in_month(year, month) ==
  IF month = 2 /\ year % 4 = 0 THEN 29
  ELSE IF month = 2 THEN 28
  ELSE IF month \in {4, 6, 9, 11} THEN 30
  ELSE 31

\* the rows create_empty_year writes for one month, in the order of its loops
\* over day and hour; a dict keeps its keys in insertion order, so a year's
\* dict is the sequence of its rows [key, t, rh]
month_rows(year, month) ==
  [j \in 1..(24 * days_in_month(year, month)) |->
     [key |-> <<month, ((j - 1) \div 24) + 1, (j - 1) % 24>>, t |-> <<>>, rh |-> <<>>]]

RECURSIVE year_rows(_, _)
year_rows(year, month) ==
  IF month = 0 THEN <<>> ELSE year_rows(year, month - 1) \o month_rows(year, month)

\* create_empty_year: one row {'t': [], 'rh': []} for every (month, day, hour)
create_empty_year(data, year) ==
  [y \in DOMAIN data \cup {year} |-> IF y = year THEN year_rows(year, 12) ELSE data[y]]

\* variant of validate_dt that creates the empty year at every call, over
\* the rows the year holds; C29_HoursNeverDecrease rejects it
validate_dt_recreating(data, dt) == create_empty_year(data, dt.year)

\* _validate_dt past the isinstance check: the dict after the year is ensured
validate_dt(data, dt) ==
  IF dt.year \notin DOMAIN data THEN create_empty_year(data, dt.year) ELSE data

RECURSIVE rows_before_month(_, _)
rows_before_month(year, month) ==
  IF month = 1 THEN 0
  ELSE rows_before_month(year, month - 1) + 24 * days_in_month(year, month - 1)

\* self._data[year][(month, day, hour)]: the position, in insertion order, of
\* the row create_empty_year wrote for that key
row_of(dt) ==
  rows_before_month(dt.year, dt.month) + 24 * (dt.day - 1) + dt.hour + 1

append_t(data, dt, temperature) ==
  LET d == validate_dt(data, dt)
  IN [d EXCEPT ![dt.year][row_of(dt)].t = Append(@, temperature)]

append_rh(data, dt, rh) ==
  LET d == validate_dt(data, dt)
  IN [d EXCEPT ![dt.year][row_of(dt)].rh = Append(@, rh)]

\* variant of project_tow that scales to 8760 hours whatever the length of the
\* year; C6_Projection rejects it
project_tow_8760(hours_with_data, max_hours, current_tow) ==
  [type |-> "float", cents |-> round2(current_tow, 8760, hours_with_data)]

project_tow(hours_with_data, max_hours, current_tow) ==
  [type |-> "float", cents |-> round2(current_tow, max_hours, hours_with_data)]

\* percent_valid > 0.75
density_ok(total_hours, max_hours) == 4 * total_hours > 3 * max_hours

\* variant of year_payload that reports a projection of 0 for a failing year;
\* C3_NullIffFail rejects it
year_payload_zero(max_hours, total_hours, tow_hours) ==
  LET qa_state == IF density_ok(total_hours, max_hours) THEN "PASS" ELSE "FAIL"
  IN [max_hours |-> max_hours,
      total_hours |-> total_hours,
      time_of_wetness |-> IF qa_state = "PASS"
                          THEN project_tow(total_hours, max_hours, tow_hours)
                          ELSE [type |-> "float", cents |-> 0],
      qa_state |-> qa_state,
      percent_valid |-> [num |-> total_hours, den |-> max_hours]]

\* variant of year_payload that reports percent_valid as a percentage;
\* C30_ResultsWithinBounds rejects it
year_payload_percent(max_hours, total_hours, tow_hours) ==
  LET qa_state == IF density_ok(total_hours, max_hours) THEN "PASS" ELSE "FAIL"
  IN [max_hours |-> max_hours,
      total_hours |-> total_hours,
      time_of_wetness |-> IF qa_state = "PASS"
                          THEN project_tow(total_hours, max_hours, tow_hours)
                          ELSE None,
      qa_state |-> qa_state,
      percent_valid |-> [num |-> 100 * total_hours, den |-> max_hours]]

year_payload(max_hours, total_hours, tow_hours) ==
  LET qa_state == IF density_ok(total_hours, max_hours) THEN "PASS" ELSE "FAIL"
  IN [max_hours |-> max_hours,
      total_hours |-> total_hours,
      time_of_wetness |-> IF qa_state = "PASS"
                          THEN project_tow(total_hours, max_hours, tow_hours)
                          ELSE None,
      qa_state |-> qa_state,
      percent_valid |-> [num |-> total_hours, den |-> max_hours]]

\* variant of has_both that skips a row only when both lists are empty;
\* C5_TotalHours rejects it
has_both_either(row) == ~(Len(row.t) = 0 /\ Len(row.rh) = 0)

\* a row the loop of get_years does not skip with `continue`
has_both(row) == ~(Len(row.t) = 0 \/ Len(row.rh) = 0)

\* a row, among those not skipped, that the loop counts in tow_hours
is_wet(row) == mean_gt(row.t, 0) /\ mean_gt(row.rh, 80)

\* total_hours and tow_hours at the end of the loop over the rows of a year
count_hours(rows) ==
  LET counted == SelectSeq(rows, has_both)
  IN [total_hours |-> Len(counted), tow_hours |-> Len(SelectSeq(counted, is_wet))]

year_result(rows) ==
  LET n == count_hours(rows)
  IN year_payload(Len(rows), n.total_hours, n.tow_hours)

\* variant of get_years that leaves out the years without a counted hour;
\* C27_YearsAreTheYearsAdded rejects it
get_years_with_hours(data) ==
  [year \in { y \in DOMAIN data : count_hours(data[y]).total_hours > 0 } |->
     year_result(data[year])]

get_years(data) == [year \in DOMAIN data |-> year_result(data[year])]

\* the sums get_averages accumulates over the years of S: only a year whose
\* qa_state is PASS adds to valid_years, to the wet hours and to the hours
RECURSIVE sum_passed(_, _)
sum_passed(data, S) ==
  IF S = {} THEN [valid_years |-> 0, tow |-> 0, total |-> 0]
  ELSE LET year == CHOOSE y \in S : TRUE
           n == count_hours(data[year])
           rest == sum_passed(data, S \ {year})
       IN IF density_ok(n.total_hours, Len(data[year]))
          THEN [valid_years |-> rest.valid_years + 1,
                tow |-> rest.tow + n.tow_hours,
                total |-> rest.total + n.total_hours]
          ELSE rest

\* variant of get_averages that counts every touched year as valid;
\* C7_Averages rejects it
get_averages_every_year(data) ==
  LET sums == sum_passed(data, DOMAIN data)
  IN [valid_years |-> Cardinality(DOMAIN data),
      annual_time_of_wetness |->
        IF sums.total = 0 THEN None
        ELSE [type |-> "float", cents |-> 100 * round0(sums.tow, 8760, sums.total)]]

\* get_averages: valid_years and the annual value weighted by the hours
get_averages(data) ==
  LET sums == sum_passed(data, DOMAIN data)
  IN [valid_years |-> sums.valid_years,
      annual_time_of_wetness |->
        IF sums.total = 0 THEN None
        ELSE [type |-> "float", cents |-> 100 * round0(sums.tow, 8760, sums.total)]]

(***************************************************************************)
(* The calendar of datetime, and the ingestion loop of the tests           *)
(***************************************************************************)
is_leap(year) == year % 4 = 0 /\ (year % 100 # 0 \/ year % 400 = 0)

monthrange(year, month) ==
  IF month = 2 THEN (IF is_leap(year) THEN 29 ELSE 28)
  ELSE IF month \in {4, 6, 9, 11} THEN 30
  ELSE 31

RECURSIVE days_before_month(_, _)
days_before_month(year, month) ==
  IF month = 1 THEN 0
  ELSE days_before_month(year, month - 1) + monthrange(year, month - 1)

\* for i in range(f.hours): add_temperature(f.t, d); add_humidity(rh_i, d);
\* d += timedelta(hours=1), with d starting at datetime(f.year, 1, 1, 0, 0, 0)
fill_hours(data, f) ==
  LET d == validate_dt(data, datetime(f.year, 1, 1, 0, 0))
      before == [m \in 1..12 |-> days_before_month(f.year, m)]
      days == [m \in 1..12 |-> monthrange(f.year, m)]
      fill_row(row) ==
        LET i == 24 * (before[row.key[1]] + row.key[2] - 1) + row.key[3]
        IN IF row.key[2] <= days[row.key[1]] /\ i < f.hours
           THEN [key |-> row.key,
                 t |-> Append(row.t, f.t),
                 rh |-> Append(row.rh, IF i % 2 = 0 THEN f.rh_even ELSE f.rh_odd)]
           ELSE row
      rows == d[f.year]
  IN [d EXCEPT ![f.year] = [k \in 1..Len(rows) |-> fill_row(rows[k])]]

(***************************************************************************)
(* HourlyGrid.  The object is the record self of its attributes; hours is  *)
(* a function from the hour keys (datetimes with minute 0) to a float or   *)
(* None.  The values in use are whole numbers, whose sums are exact in     *)
(* float64 whatever the order of the dict; a mean is kept as the exact     *)
(* fraction num / den.                                                     *)
(***************************************************************************)
\* dt.replace(minute=0, second=0, microsecond=0)
replace_minute_0(dt) == [dt EXCEPT !.minute = 0]

\* a < b on datetimes
dt_lt(a, b) ==
  LET x == <<a.year, a.month, a.day, a.hour, a.minute>>
      y == <<b.year, b.month, b.day, b.hour, b.minute>>
  IN \E i \in 1..5 : x[i] < y[i] /\ \A j \in 1..(i - 1) : x[j] = y[j]

dt_le(a, b) == a = b \/ dt_lt(a, b)

\* dt + timedelta(hours=1)
plus_hour(dt) ==
  IF dt.hour < 23 THEN [dt EXCEPT !.hour = @ + 1]
  ELSE IF dt.day < monthrange(dt.year, dt.month)
       THEN [dt EXCEPT !.hour = 0, !.day = @ + 1]
       ELSE IF dt.month < 12
            THEN [dt EXCEPT !.hour = 0, !.day = 1, !.month = @ + 1]
            ELSE [dt EXCEPT !.hour = 0, !.day = 1, !.month = 1, !.year = @ + 1]

\* d[key] = value on a dict
setitem(d, key, value) ==
  [k \in DOMAIN d \cup {key} |-> IF k = key THEN value ELSE d[k]]

\* _recalc: every missing hour from start_dt up to, not including, end_dt
RECURSIVE recalc(_, _, _, _)
recalc(h, default_value, start_dt, end_dt) ==
  IF dt_lt(start_dt, end_dt)
  THEN recalc(IF start_dt \notin DOMAIN h THEN setitem(h, start_dt, default_value) ELSE h,
              default_value, plus_hour(start_dt), end_dt)
  ELSE h

\* variant of recalc_bottom that writes the default into every hour from the
\* old end on, the hours the grid holds included; C28_AddTouchesOneCell
\* rejects it
RECURSIVE recalc_bottom_overwriting(_, _, _, _)
recalc_bottom_overwriting(h, default_value, max_hour_in_hours, end_dt) ==
  IF dt_lt(max_hour_in_hours, end_dt)
  THEN recalc_bottom_overwriting(setitem(h, max_hour_in_hours, default_value),
                                 default_value, plus_hour(max_hour_in_hours), end_dt)
  ELSE h

\* variant of recalc_bottom that adds no hour; C11_GridIsDense rejects it
recalc_bottom_nothing(h, default_value, max_hour_in_hours, end_dt) == h

\* _recalc_bottom: every missing hour from old_end up to, not including, the
\* new end
RECURSIVE recalc_bottom(_, _, _, _)
recalc_bottom(h, default_value, max_hour_in_hours, end_dt) ==
  IF dt_lt(max_hour_in_hours, end_dt)
  THEN recalc_bottom(IF max_hour_in_hours \in DOMAIN h THEN h
                     ELSE setitem(h, max_hour_in_hours, default_value),
                     default_value, plus_hour(max_hour_in_hours), end_dt)
  ELSE h

update_range(self, dt) ==
  LET hour == replace_minute_0(dt)
      moves_start == IF self._start = None THEN TRUE ELSE dt_lt(dt, self._start)
      moves_end == IF self._end = None THEN FALSE ELSE dt_lt(self._end, dt)
      do_recalc == moves_start \/ self._end = None
      new_start == IF moves_start THEN hour ELSE self._start
      new_end == IF self._end = None \/ moves_end THEN hour ELSE self._end
      h1 == IF do_recalc
            THEN recalc(self.hours, self._default_value, new_start, new_end)
            ELSE self.hours
      h2 == IF moves_end
            THEN recalc_bottom(h1, self._default_value, self._end, new_end)
            ELSE h1
  IN [self EXCEPT !.hours = h2, !._start = new_start, !._end = new_end]

\* variant of add that adds the value to the one the hour holds;
\* C12_LastWriteWins rejects it
add_accumulating(self, dt, value) ==
  LET hour == replace_minute_0(dt)
      ranged == update_range(self, dt)
      old == IF hour \in DOMAIN self.hours THEN self.hours[hour] ELSE None
      v == IF value = None THEN value
           ELSE IF old = None THEN float(value)
           ELSE float(int(old.val + value.val))
  IN [ranged EXCEPT !.hours = setitem(ranged.hours, hour, v),
                    !._is_empty = IF value # None THEN FALSE ELSE @]

\* HourlyGrid.add
add(self, dt, value) ==
  LET hour == replace_minute_0(dt)
      ranged == update_range(self, dt)
      v == IF value # None THEN float(value) ELSE value
  IN [ranged EXCEPT !.hours = setitem(ranged.hours, hour, v),
                    !._is_empty = IF value # None THEN FALSE ELSE @]

get_total_hours(self) == int(Cardinality(DOMAIN self.hours))

\* the hours h of the dict with `h >= start and h <= end`, or every hour
\* when no range is given
hours_in(self, start, end) ==
  IF start = None THEN DOMAIN self.hours
  ELSE {h \in DOMAIN self.hours : dt_le(start, h) /\ dt_le(h, end)}

\* among them, the hours with `v is not None`
hours_not_None(self, start, end) ==
  {h \in hours_in(self, start, end) : self.hours[h] # None}

\* `v if v is not None else 0`
zero_if_None(v) == IF v # None THEN v ELSE int(0)

\* the sum of the numbers the function f gives the keys of S
RECURSIVE np_sum(_, _)
np_sum(f, S) ==
  IF S = {} THEN 0
  ELSE LET k == CHOOSE x \in S : TRUE IN f[k].val + np_sum(f, S \ {k})

min(S) == CHOOSE x \in S : \A y \in S : x <= y
max(S) == CHOOSE x \in S : \A y \in S : y <= x

get_count(self, start, end) ==
  IF self._is_empty THEN None
  ELSE IF Cardinality(DOMAIN self.hours) = 0 THEN None
  ELSE IF start = None THEN int(Cardinality(DOMAIN self.hours))
  ELSE int(Cardinality(hours_not_None(self, start, end)))

get_total(self, start, end) ==
  IF self._is_empty THEN None
  ELSE IF Cardinality(DOMAIN self.hours) = 0 THEN None
  ELSE float(int(np_sum(self.hours, hours_not_None(self, start, end))))

\* the mean over every selected hour, None taken as 0
get_mean(self, start, end) ==
  LET keys == hours_in(self, start, end)
      hour_values == [h \in keys |-> zero_if_None(self.hours[h])]
  IN IF self._is_empty THEN None
     ELSE IF Cardinality(DOMAIN self.hours) = 0 THEN None
     ELSE IF Cardinality(keys) = 0 THEN None
     ELSE [type |-> "float", num |-> np_sum(hour_values, keys), den |-> Cardinality(keys)]

\* the minimum over every selected hour, None taken as 0
get_min(self, start, end) ==
  LET keys == hours_in(self, start, end)
  IN IF self._is_empty THEN None
     ELSE IF Cardinality(DOMAIN self.hours) = 0 THEN None
     ELSE IF Cardinality(keys) = 0 THEN None
     ELSE float(int(min({zero_if_None(self.hours[h]).val : h \in keys})))

\* the maximum over the selected hours that are not None
get_max(self, start, end) ==
  LET keys == hours_not_None(self, start, end)
  IN IF self._is_empty THEN None
     ELSE IF Cardinality(DOMAIN self.hours) = 0 THEN None
     ELSE IF Cardinality(keys) = 0 THEN None
     ELSE float(int(max({self.hours[h].val : h \in keys})))

\* the outcome of a call: a returned value or a raised exception
returns(call, value) == [kind |-> call, value |-> value]
raises(call, exception) == [kind |-> exception, call |-> call]

\* get_total_by_year: `years[year] += value` raises TypeError on a None
get_total_by_year(self) ==
  IF \E h \in DOMAIN self.hours : self.hours[h] = None
  THEN raises("get_total_by_year", "TypeError")
  ELSE returns("get_total_by_year",
               [year \in {h.year : h \in DOMAIN self.hours} |->
                  float(int(np_sum(self.hours,
                                   {h \in DOMAIN self.hours : h.year = year})))])

\* the entry of one year, before the conversions by float()
year_detailed(self, start_year) ==
  LET range_start == datetime(start_year, 1, 1, 0, 0)
      range_end == datetime(start_year, 12, 31, 23, 0)
  IN [total |-> get_total(self, range_start, range_end),
      min |-> get_min(self, range_start, range_end),
      max |-> get_max(self, range_start, range_end),
      mean |-> get_mean(self, range_start, range_end),
      count |-> get_count(self, range_start, range_end)]

\* get_total_by_year_detailed: float(None) raises TypeError
get_total_by_year_detailed(self) ==
  IF self._start = None \/ self._end = None
  THEN returns("get_total_by_year_detailed", None)
  ELSE LET result == [year \in (self._start.year)..(self._end.year) |->
                        year_detailed(self, year)]
       IN IF \E year \in DOMAIN result :
               \/ result[year].min = None
               \/ result[year].max = None
               \/ result[year].mean = None
          THEN raises("get_total_by_year_detailed", "TypeError")
          ELSE returns("get_total_by_year_detailed", result)

(***************************************************************************)
(* YearCoverageAnalyzer and the coverage queries of TOWCalculator.  A score *)
(* is a percentage kept exactly, as the mixed number whole + num / den with *)
(* 0 <= num < den in lowest terms.                                         *)
(***************************************************************************)
RECURSIVE gcd(_, _)
gcd(a, b) == IF b = 0 THEN a ELSE gcd(b, a % b)

lcm(a, b) == (a \div gcd(a, b)) * b

\* the quotient a / b of two naturals, b > 0
quotient(a, b) ==
  LET r == a % b
      g == gcd(r, b)
  IN [whole |-> a \div b, num |-> r \div g, den |-> b \div g]

\* (x + y + z) / 3
mean3(x, y, z) ==
  LET d == lcm(lcm(x.den, y.den), z.den)
      f == x.num * (d \div x.den) + y.num * (d \div y.den) + z.num * (d \div z.den)
      w == x.whole + y.whole + z.whole + (f \div d)
      thirds == quotient((w % 3) * d + (f % d), 3 * d)
  IN [thirds EXCEPT !.whole = w \div 3]

\* x >= t for a whole number t
score_ge(x, t) == x.whole >= t

days_in_year(year) == IF is_leap(year) THEN 366 ELSE 365

\* variant of season_of by whole months, spring March to May, summer June
\* to August, fall September to November; C21_FixedSeasonRanges rejects it
season_of_months(month, day) ==
  IF month \in 3..5 THEN "spring"
  ELSE IF month \in 6..8 THEN "summer"
  ELSE IF month \in 9..11 THEN "fall"
  ELSE "winter"

\* the season of a calendar day: spring 20 March - 20 June, summer 21 June -
\* 22 September, fall 23 September - 20 December, winter the rest
season_of(month, day) ==
  LET on_or_after(m, d) == month > m \/ (month = m /\ day >= d)
  IN IF on_or_after(12, 21) THEN "winter"
     ELSE IF on_or_after(9, 23) THEN "fall"
     ELSE IF on_or_after(6, 21) THEN "summer"
     ELSE IF on_or_after(3, 20) THEN "spring"
     ELSE "winter"

seasons == {"spring", "summer", "fall", "winter"}

\* the calendar days of a year, as <<month, day>>
calendar(year) ==
  UNION { { <<m, d>> : d \in 1..monthrange(year, m) } : m \in 1..12 }

day_of_year(year, md) == days_before_month(year, md[1]) + md[2]

\* variant of largest_gap that counts the empty days between two days
\* with data, 0 for adjacent days; C24_LargestGap rejects it
largest_gap_empty_days(doys) ==
  LET first == CHOOSE d \in doys : \A e \in doys : d <= e
      gap(d) == CHOOSE g \in 1..d : (d - g) \in doys /\ \A k \in 1..(g - 1) : (d - k) \notin doys
      gaps == { gap(d) - 1 : d \in doys \ {first} }
  IN IF Cardinality(doys) < 2 THEN 0 ELSE max(gaps)

\* the largest difference between consecutive entries of the sorted days of
\* year with data, 0 when fewer than two days have data
largest_gap(doys) ==
  LET first == CHOOSE d \in doys : \A e \in doys : d <= e
      gap(d) == CHOOSE g \in 1..d : (d - g) \in doys /\ \A k \in 1..(g - 1) : (d - k) \notin doys
      gaps == { gap(d) : d \in doys \ {first} }
  IN IF Cardinality(doys) < 2 THEN 0 ELSE max(gaps)

\* variant of days_of that keeps the timestamps of every year;
\* C25_DaysOfTheYearAnalyzed rejects it
days_of_every_year(timestamps, year) ==
  { <<timestamps[i].month, timestamps[i].day>> : i \in 1..Len(timestamps) }

\* the distinct calendar days of the year, as <<month, day>>, on which a
\* timestamp of the list falls; timestamps of other years are left out
days_of(timestamps, year) ==
  LET in_year == { i \in 1..Len(timestamps) : timestamps[i].year = year }
  IN { <<timestamps[i].month, timestamps[i].day>> : i \in in_year }

\* monthly_breakdown: the days with data of each month
monthly_breakdown(days) ==
  [m \in 1..12 |-> Cardinality({ md \in days : md[1] = m })]

\* seasonal_breakdown: the days with data of each season
seasonal_breakdown(days) ==
  [s \in seasons |-> Cardinality({ md \in days : season_of(md[1], md[2]) = s })]

\* variant of season_days with the season lengths of a regular year in
\* every year; C22_SeasonalCoverage rejects it
season_days_regular(year) == seasonal_breakdown(calendar(2023))

\* the total days of each season in the year analyzed
season_days(year) == seasonal_breakdown(calendar(year))

\* variant of monthly_coverage that takes a month without a day for a month
\* with data; C26_EmptyInput rejects it
monthly_coverage_every_month(by_month) ==
  quotient(100 * Cardinality({ m \in 1..12 : by_month[m] >= 0 }), 12)

\* monthly_coverage: 100 times the months with data over 12
monthly_coverage(by_month) ==
  quotient(100 * Cardinality({ m \in 1..12 : by_month[m] > 0 }), 12)

\* seasonal_coverage: 100 times the mean over the four seasons of the days
\* with data of the season over its total days
seasonal_coverage(by_season, year) ==
  LET total == season_days(year)
      d == lcm(lcm(total["spring"], total["summer"]), lcm(total["fall"], total["winter"]))
      part(s) == by_season[s] * (d \div total[s])
  IN quotient(25 * (part("spring") + part("summer") + part("fall") + part("winter")), d)

\* variant of analyze_coverage whose overall score leaves the day density
\* out; C20_OverallScore rejects it
analyze_coverage_two_scores(threshold, timestamps, year) ==
  LET days == days_of(timestamps, year)
      by_month == monthly_breakdown(days)
      by_season == seasonal_breakdown(days)
      overall_score ==
        mean3(seasonal_coverage(by_season, year), monthly_coverage(by_month), quotient(0, 1))
  IN [year_analyzed |-> year,
      days_with_data |-> Cardinality(days),
      monthly_breakdown |-> by_month,
      seasonal_breakdown |-> by_season,
      monthly_coverage |-> monthly_coverage(by_month),
      seasonal_coverage |-> seasonal_coverage(by_season, year),
      largest_gap_days |-> largest_gap({ day_of_year(year, md) : md \in days }),
      overall_score |-> overall_score,
      adequate_coverage |-> score_ge(overall_score, threshold)]

\* YearCoverageAnalyzer(adequate_threshold = threshold).analyze_coverage
analyze_coverage(threshold, timestamps, year) ==
  LET days == days_of(timestamps, year)
      by_month == monthly_breakdown(days)
      by_season == seasonal_breakdown(days)
      day_density == quotient(100 * Cardinality(days), days_in_year(year))
      overall_score ==
        mean3(seasonal_coverage(by_season, year), monthly_coverage(by_month), day_density)
  IN [year_analyzed |-> year,
      days_with_data |-> Cardinality(days),
      monthly_breakdown |-> by_month,
      seasonal_breakdown |-> by_season,
      monthly_coverage |-> monthly_coverage(by_month),
      seasonal_coverage |-> seasonal_coverage(by_season, year),
      largest_gap_days |-> largest_gap({ day_of_year(year, md) : md \in days }),
      overall_score |-> overall_score,
      adequate_coverage |-> score_ge(overall_score, threshold)]

\* the timestamps of the hour slots of a year that hold a reading of the
\* metric, in the order of the slots
year_timestamps(rows, year, metric) ==
  LET read(row) == IF metric = "temperature" THEN Len(row.t) > 0 ELSE Len(row.rh) > 0
      slots == SelectSeq(rows, read)
  IN [k \in 1..Len(slots) |->
        datetime(year, slots[k].key[1], slots[k].key[2], slots[k].key[3], 0)]

\* the list of those timestamps over the years of S, year after year
RECURSIVE timestamps_of(_, _, _)
timestamps_of(data, metric, S) ==
  IF S = {} THEN <<>>
  ELSE LET year == max(S)
       IN timestamps_of(data, metric, S \ {year})
            \o year_timestamps(data[year], year, metric)

\* TOWCalculator.assess_year_coverage(year, metric)
assess_year_coverage(data, threshold, year, metric) ==
  analyze_coverage(threshold, timestamps_of(data, metric, DOMAIN data), year)

\* TOWCalculator.has_adequate_year_coverage(year, metric)
has_adequate_year_coverage(data, threshold, year, metric) ==
  assess_year_coverage(data, threshold, year, metric).adequate_coverage

\* variant of enhanced_qa_state that looks at the coverage alone;
\* C18_EnhancedQAState rejects it
enhanced_qa_state_coverage_only(qa_state, temperature, humidity) ==
  IF ~temperature.adequate_coverage \/ ~humidity.adequate_coverage
  THEN "FAIL_COVERAGE"
  ELSE "PASS"

\* variant of enhanced_qa_state that asks only the temperature coverage;
\* C19_CoverageDecidesPassingYears rejects it
enhanced_qa_state_temperature_only(qa_state, temperature, humidity) ==
  IF qa_state = "FAIL" THEN "FAIL_DENSITY"
  ELSE IF ~temperature.adequate_coverage THEN "FAIL_COVERAGE"
  ELSE "PASS"

\* the verdict of the enhanced QA from the density verdict of get_years and
\* the two coverage results
enhanced_qa_state(qa_state, temperature, humidity) ==
  IF qa_state = "FAIL" THEN "FAIL_DENSITY"
  ELSE IF ~temperature.adequate_coverage \/ ~humidity.adequate_coverage
  THEN "FAIL_COVERAGE"
  ELSE "PASS"

\* TOWCalculator.get_years_with_coverage(): every year's result of get_years
\* with its coverage_analysis
get_years_with_coverage(data, threshold) ==
  LET years == get_years(data)
      temperature_stamps == timestamps_of(data, "temperature", DOMAIN data)
      humidity_stamps == timestamps_of(data, "humidity", DOMAIN data)
      enhanced(year) ==
        LET result == years[year]
            temperature == analyze_coverage(threshold, temperature_stamps, year)
            humidity == analyze_coverage(threshold, humidity_stamps, year)
        IN [max_hours |-> result.max_hours,
            total_hours |-> result.total_hours,
            time_of_wetness |-> result.time_of_wetness,
            qa_state |-> result.qa_state,
            percent_valid |-> result.percent_valid,
            coverage_analysis |->
              [temperature |-> temperature,
               humidity |-> humidity,
               enhanced_qa_state |->
                 enhanced_qa_state(result.qa_state, temperature, humidity)]]
  IN [year \in DOMAIN data |-> enhanced(year)]

\* for day in range(g.days): for hour in range(0, 24, g.every):
\*   d = datetime(g.year, 1, 1) + timedelta(days=g.first + day, hours=hour);
\*   add_temperature(25.0, d) and / or add_humidity(85.0, d)
\* for a span of days that ends within the year
fill_days(data, g) ==
  LET d == validate_dt(data, datetime(g.year, 1, 1, 0, 0))
      before == [m \in 1..12 |-> days_before_month(g.year, m)]
      days == [m \in 1..12 |-> monthrange(g.year, m)]
      fill_row(row) ==
        LET day == before[row.key[1]] + row.key[2] - 1
        IN IF /\ row.key[2] <= days[row.key[1]]
              /\ g.first <= day /\ day < g.first + g.days
              /\ row.key[3] % g.every = 0
           THEN [key |-> row.key,
                 t |-> IF g.metric \in {"both", "temperature"}
                       THEN Append(row.t, 250) ELSE row.t,
                 rh |-> IF g.metric \in {"both", "humidity"}
                        THEN Append(row.rh, 850) ELSE row.rh]
           ELSE row
      rows == d[g.year]
  IN [d EXCEPT ![g.year] = [k \in 1..Len(rows) |-> fill_row(rows[k])]]

(***************************************************************************)
(* The history of ingestion calls                                          *)
(***************************************************************************)
no_loop == [year |-> 0, hours |-> 0, t |-> 0, rh_even |-> 0, rh_odd |-> 0]

call_add(op, value, dt) == [op |-> op, value |-> value, dt |-> dt, f |-> no_loop]

call_fill(f) ==
  [op |-> "fill", value |-> 0, dt |-> datetime(f.year, 1, 1, 0, 0), f |-> f]

record_call(bag, c) == bag (+) SetToBag({c})

\* the effect of one recorded call on the accumulator
apply_call(data, c) ==
  CASE c.op = "add_temperature" -> append_t(data, c.dt, c.value)
    [] c.op = "add_humidity" -> append_rh(data, c.dt, c.value)
    [] c.op = "fill" -> fill_hours(data, c.f)

\* the accumulator a fresh TOWCalculator holds after the calls of the bag,
\* made in one fixed order
RECURSIVE replay(_)
replay(bag) ==
  IF BagToSet(bag) = {} THEN <<>>
  ELSE LET c == CHOOSE c \in BagToSet(bag) : TRUE
       IN apply_call(replay(bag (-) SetToBag({c})), c)

(***************************************************************************)
(* Actions                                                                 *)
(***************************************************************************)
Init ==
  /\ _data = <<>>
  /\ ret = [kind |-> "__init__"]
  /\ calls = EmptyBag
  /\ hours = <<>>
  /\ _start = None
  /\ _end = None
  /\ _default_value = None
  /\ _is_empty = TRUE
  /\ added = <<>>
  /\ adequate_threshold = 75
  /\ filled = {}

raise_ValueError == [kind |-> "ValueError"]
return_None == [kind |-> "None"]

\* the explored runs make their ingestion calls first and their queries after
ingesting == ret.kind \in {"__init__", "None"} /\ BagCardinality(calls) < MaxCalls

\* variant of add_temperature that reads dt.year and creates the year before
\* it checks the type of dt; C10_RejectedAddChangesNothing rejects it
add_temperature_touching ==
  \E dt \in Stamps \cup NotDatetimes :
    IF dt.type # "datetime"
    THEN /\ ret' = raise_ValueError
         /\ _data' = validate_dt(_data, dt)
         /\ UNCHANGED calls
         /\ UNCHANGED grid_vars
         /\ UNCHANGED coverage_vars
    ELSE \E temperature \in Temps :
         /\ ingesting
         /\ _data' = append_t(_data, dt, temperature)
         /\ ret' = return_None
         /\ calls' = record_call(calls, call_add("add_temperature", temperature, dt))
         /\ UNCHANGED grid_vars
         /\ UNCHANGED coverage_vars

add_temperature ==
  \E dt \in Stamps \cup NotDatetimes :
    IF dt.type # "datetime"
    THEN /\ ret' = raise_ValueError
         /\ UNCHANGED <<_data, calls>>
         /\ UNCHANGED grid_vars
         /\ UNCHANGED coverage_vars
    ELSE \E temperature \in Temps :
         /\ ingesting
         /\ _data' = append_t(_data, dt, temperature)
         /\ ret' = return_None
         /\ calls' = record_call(calls, call_add("add_temperature", temperature, dt))
         /\ UNCHANGED grid_vars
         /\ UNCHANGED coverage_vars

add_humidity ==
  \E dt \in Stamps \cup NotDatetimes :
    IF dt.type # "datetime"
    THEN /\ ret' = raise_ValueError
         /\ UNCHANGED <<_data, calls>>
         /\ UNCHANGED grid_vars
         /\ UNCHANGED coverage_vars
    ELSE \E rh \in Hums :
         /\ ingesting
         /\ _data' = append_rh(_data, dt, rh)
         /\ ret' = return_None
         /\ calls' = record_call(calls, call_add("add_humidity", rh, dt))
         /\ UNCHANGED grid_vars
         /\ UNCHANGED coverage_vars

\* one ingestion loop per year
FillHours ==
  \E f \in Loops :
    /\ ingesting
    /\ \A c \in BagToSet(calls) : ~(c.op = "fill" /\ c.f.year = f.year)
    /\ _data' = fill_hours(_data, f)
    /\ ret' = return_None
    /\ calls' = record_call(calls, call_fill(f))
    /\ UNCHANGED grid_vars
    /\ UNCHANGED coverage_vars

\* variant of GetYears that empties the accumulator once it has the result;
\* C9_QueriesArePure rejects it
GetYears_clearing ==
  /\ ret' = [kind |-> "years", value |-> get_years(_data)]
  /\ _data' = <<>>
  /\ UNCHANGED calls
  /\ UNCHANGED grid_vars
  /\ UNCHANGED coverage_vars

GetYears ==
  /\ ret' = [kind |-> "years", value |-> get_years(_data)]
  /\ UNCHANGED <<_data, calls>>
  /\ UNCHANGED grid_vars
  /\ UNCHANGED coverage_vars

GetAverages ==
  /\ ret' = [kind |-> "averages", value |-> get_averages(_data)]
  /\ UNCHANGED <<_data, calls>>
  /\ UNCHANGED grid_vars
  /\ UNCHANGED coverage_vars

Next == add_temperature \/ add_humidity \/ FillHours \/ GetYears \/ GetAverages

Spec == Init /\ [][Next]_vars

(***************************************************************************)
(* Actions of the HourlyGrid                                               *)
(***************************************************************************)
\* the HourlyGrid object
self ==
  [hours |-> hours, _start |-> _start, _end |-> _end,
   _default_value |-> _default_value, _is_empty |-> _is_empty]

\* the explored runs make their add calls first and end with one query
adding == ret.kind \in {"__init__", "add"}

Add ==
  \E dt \in GridStamps, i \in DOMAIN GridValues :
    LET after == add(self, dt, GridValues[i])
    IN /\ adding
       /\ Len(added) < MaxAdds
       /\ hours' = after.hours
       /\ _start' = after._start
       /\ _end' = after._end
       /\ _is_empty' = after._is_empty
       /\ added' = Append(added, [dt |-> dt, value |-> GridValues[i]])
       /\ ret' = returns("add", None)
       /\ UNCHANGED _default_value
       /\ UNCHANGED tow_vars
       /\ UNCHANGED coverage_vars

\* the queries read the grid and leave it as it is
GetTotalHours ==
  /\ adding
  /\ ret' = returns("get_total_hours", get_total_hours(self))
  /\ UNCHANGED grid_vars
  /\ UNCHANGED tow_vars
  /\ UNCHANGED coverage_vars

GetStart ==
  /\ adding
  /\ ret' = returns("get_start", _start)
  /\ UNCHANGED grid_vars
  /\ UNCHANGED tow_vars
  /\ UNCHANGED coverage_vars

GetEnd ==
  /\ adding
  /\ ret' = returns("get_end", _end)
  /\ UNCHANGED grid_vars
  /\ UNCHANGED tow_vars
  /\ UNCHANGED coverage_vars

GetCount ==
  \E i \in DOMAIN Ranges :
    /\ adding
    /\ ret' = [kind |-> "get_count", range |-> i,
               value |-> get_count(self, Ranges[i].start, Ranges[i].end)]
    /\ UNCHANGED grid_vars
    /\ UNCHANGED tow_vars
    /\ UNCHANGED coverage_vars

GetTotal ==
  \E i \in DOMAIN Ranges :
    /\ adding
    /\ ret' = [kind |-> "get_total", range |-> i,
               value |-> get_total(self, Ranges[i].start, Ranges[i].end)]
    /\ UNCHANGED grid_vars
    /\ UNCHANGED tow_vars
    /\ UNCHANGED coverage_vars

GetMean ==
  \E i \in DOMAIN Ranges :
    /\ adding
    /\ ret' = [kind |-> "get_mean", range |-> i,
               value |-> get_mean(self, Ranges[i].start, Ranges[i].end)]
    /\ UNCHANGED grid_vars
    /\ UNCHANGED tow_vars
    /\ UNCHANGED coverage_vars

GetMin ==
  \E i \in DOMAIN Ranges :
    /\ adding
    /\ ret' = [kind |-> "get_min", range |-> i,
               value |-> get_min(self, Ranges[i].start, Ranges[i].end)]
    /\ UNCHANGED grid_vars
    /\ UNCHANGED tow_vars
    /\ UNCHANGED coverage_vars

GetMax ==
  \E i \in DOMAIN Ranges :
    /\ adding
    /\ ret' = [kind |-> "get_max", range |-> i,
               value |-> get_max(self, Ranges[i].start, Ranges[i].end)]
    /\ UNCHANGED grid_vars
    /\ UNCHANGED tow_vars
    /\ UNCHANGED coverage_vars

GetTotalByYear ==
  /\ adding
  /\ ret' = get_total_by_year(self)
  /\ UNCHANGED grid_vars
  /\ UNCHANGED tow_vars
  /\ UNCHANGED coverage_vars

GetTotalByYearDetailed ==
  /\ adding
  /\ ret' = get_total_by_year_detailed(self)
  /\ UNCHANGED grid_vars
  /\ UNCHANGED tow_vars
  /\ UNCHANGED coverage_vars

NextGrid ==
  \/ Add
  \/ GetTotalHours \/ GetStart \/ GetEnd \/ GetCount
  \/ GetTotal \/ GetMean \/ GetMin \/ GetMax
  \/ GetTotalByYear \/ GetTotalByYearDetailed

SpecGrid == Init /\ [][NextGrid]_vars

\* the default values offered to the constructor: HourlyGrid() and
\* HourlyGrid(0.0)
DefaultValues == { None, float(int(0)) }

\* a grid constructed with one of the default values
InitGrid ==
  /\ _data = <<>>
  /\ ret = [kind |-> "__init__"]
  /\ calls = EmptyBag
  /\ hours = <<>>
  /\ _start = None
  /\ _end = None
  /\ _default_value \in DefaultValues
  /\ _is_empty = TRUE
  /\ added = <<>>
  /\ adequate_threshold = 75
  /\ filled = {}

SpecGridDefault == InitGrid /\ [][NextGrid]_vars

(***************************************************************************)
(* Actions of the coverage analysis                                        *)
(***************************************************************************)
\* a calculator whose analyzer was constructed with one of the thresholds
InitCoverage ==
  /\ _data = <<>>
  /\ ret = [kind |-> "__init__"]
  /\ calls = EmptyBag
  /\ hours = <<>>
  /\ _start = None
  /\ _end = None
  /\ _default_value = None
  /\ _is_empty = TRUE
  /\ added = <<>>
  /\ adequate_threshold \in Thresholds
  /\ filled = {}

\* _create_date_range(r.start, r.end): the list of the days from r.start to
\* r.end, both of one year, at the hour of r.start
date_range(r) ==
  LET year == r.start.year
      before == [m \in 1..12 |-> days_before_month(year, m)]
      first == before[r.start.month] + r.start.day
      last == before[r.end.month] + r.end.day
      month(n) == max({ m \in 1..12 : before[m] < n })
  IN [k \in 1..(IF last < first THEN 0 ELSE last - first + 1) |->
        datetime(year, month(first + k - 1), first + k - 1 - before[month(first + k - 1)],
                 r.start.hour, r.start.minute)]

\* the explored runs make their ingestion loops first and end with one query
filling == ret.kind \in {"__init__", "None"}

\* one ingestion loop per year and metric
FillDays ==
  \E g \in Spans :
    /\ filling
    /\ Cardinality(filled) < MaxSpans
    /\ \A f \in filled :
         f.year # g.year \/ (f.metric # g.metric /\ "both" \notin {f.metric, g.metric})
    /\ _data' = fill_days(_data, g)
    /\ ret' = return_None
    /\ filled' = filled \cup {g}
    /\ UNCHANGED <<calls, adequate_threshold>>
    /\ UNCHANGED grid_vars

\* the timestamps of a list of ranges, range after range
RECURSIVE date_list(_)
date_list(ranges) ==
  IF ranges = <<>> THEN <<>> ELSE date_range(Head(ranges)) \o date_list(Tail(ranges))

\* the analyzer is called on a list of its own, which the readings of the
\* calculator play no part in; the result is kept with the arguments
AnalyzeCoverage ==
  \E ranges \in DateLists, year \in AnalyzedYears :
    /\ filling
    /\ filled = {}
    /\ ret' = [kind |-> "analyze_coverage",
               timestamps |-> date_list(ranges),
               year |-> year,
               value |-> analyze_coverage(adequate_threshold, date_list(ranges), year)]
    /\ UNCHANGED tow_vars
    /\ UNCHANGED grid_vars
    /\ UNCHANGED coverage_vars

AssessYearCoverage ==
  \E year \in CoverageYears, metric \in Metrics :
    /\ filling
    /\ ret' = [kind |-> "assess_year_coverage",
               value |-> assess_year_coverage(_data, adequate_threshold, year, metric)]
    /\ UNCHANGED tow_vars
    /\ UNCHANGED grid_vars
    /\ UNCHANGED coverage_vars

GetYearsWithCoverage ==
  /\ filling
  /\ ret' = [kind |-> "years_with_coverage",
             value |-> get_years_with_coverage(_data, adequate_threshold)]
  /\ UNCHANGED tow_vars
  /\ UNCHANGED grid_vars
  /\ UNCHANGED coverage_vars

NextCoverage ==
  \/ FillDays
  \/ AnalyzeCoverage \/ AssessYearCoverage \/ GetYearsWithCoverage

SpecCoverage == InitCoverage /\ [][NextCoverage]_vars

(***************************************************************************)
(* Properties                                                              *)
(*                                                                         *)
(* A query's result is read in ret; between a query and the next ingestion *)
(* call _data is the accumulator the result was computed from.             *)
(***************************************************************************)

\* C1: for every touched year y, get_years()[y]['max_hours'] is 8784 if y is
\* a Gregorian leap year (divisible by 4 and not by 100, or by 400) and 8760
\* otherwise.  Violated: create_empty_year gives February 29 days whenever
\* year % 4 = 0, so the century year 2100 reports 8784.
C1_MaxHoursGregorian ==
  ret.kind = "years" =>
    \A y \in DOMAIN ret.value :
      ret.value[y].max_hours = IF is_leap(y) THEN 8784 ELSE 8760

\* C2: in every year entry of get_years(), qa_state is 'PASS' exactly when
\* total_hours / max_hours >= 0.75, so that 6570 hours of 8760 is PASS.
\* Violated: the code compares with >, and 6570 of 8760 is FAIL.
C2_PassIffAtLeastThreshold ==
  ret.kind = "years" =>
    \A y \in DOMAIN ret.value :
      LET e == ret.value[y]
      IN (e.qa_state = "PASS") <=> (4 * e.percent_valid.num >= 3 * e.percent_valid.den)

\* C3: every year entry of get_years() has time_of_wetness None if and only
\* if its qa_state is 'FAIL'; a failing year carries no number (not even 0)
\* and a passing year always carries one.
C3_NullIffFail ==
  ret.kind = "years" =>
    \A y \in DOMAIN ret.value :
      LET e == ret.value[y]
      IN /\ e.qa_state \in {"PASS", "FAIL"}
         /\ (e.time_of_wetness = None) <=> (e.qa_state = "FAIL")
         /\ (e.time_of_wetness.type = "float") <=> (e.qa_state = "PASS")

\* a result of get_years with a passing year and a failing year that holds hours
C3_PassAndFailReported ==
  /\ ret.kind = "years"
  /\ \E y, z \in DOMAIN ret.value :
       /\ ret.value[y].qa_state = "PASS"
       /\ ret.value[y].time_of_wetness.type = "float"
       /\ ret.value[z].qa_state = "FAIL"
       /\ ret.value[z].total_hours > 0
       /\ ret.value[z].time_of_wetness = None

\* C4: get_years() reports for each year a field time_of_wetness_actual, the
\* number of slots with both kinds of sample whose mean temperature is > 0
\* and mean humidity > 80.  Violated: the entries get_years builds have no
\* such field; the count stays in the local tow_hours.
C4_ActualWetHoursReported ==
  ret.kind = "years" =>
    \A y \in DOMAIN ret.value :
      /\ "time_of_wetness_actual" \in DOMAIN ret.value[y]
      /\ ret.value[y].time_of_wetness_actual =
           Len(SelectSeq(_data[y],
                         LAMBDA row : /\ Len(row.t) >= 1
                                      /\ Len(row.rh) >= 1
                                      /\ mean_gt(row.t, 0)
                                      /\ mean_gt(row.rh, 80)))

\* C5: for each year, total_hours of get_years() is the number of hour slots
\* of the year holding at least one temperature and at least one humidity
\* sample, however many samples the slot holds.
C5_TotalHours ==
  ret.kind = "years" =>
    /\ DOMAIN ret.value = DOMAIN _data
    /\ \A y \in DOMAIN ret.value :
         ret.value[y].total_hours =
           Len(SelectSeq(_data[y], LAMBDA row : Len(row.t) >= 1 /\ Len(row.rh) >= 1))

\* a result of get_years for a year that has a slot with temperature samples
\* only (two of them) next to 6570 slots with both kinds
C5_TemperatureOnlySlot ==
  /\ ret.kind = "years"
  /\ \E y \in DOMAIN ret.value :
       /\ ret.value[y].total_hours = 6570
       /\ \E k \in 1..Len(_data[y]) : Len(_data[y][k].t) = 2 /\ Len(_data[y][k].rh) = 0

\* C6: for a year whose qa_state is PASS, time_of_wetness is the number of
\* wet hours / total_hours * max_hours rounded to 2 decimals: in hundredths,
\* the integer nearest to 100 * wet * max_hours / total_hours.
C6_Projection ==
  ret.kind = "years" =>
    \A y \in DOMAIN ret.value :
      LET e == ret.value[y]
          wet == count_hours(_data[y]).tow_hours
          q == (wet * e.max_hours) \div e.total_hours
          r == (wet * e.max_hours) % e.total_hours
          h == e.time_of_wetness.cents - 100 * q
      IN e.qa_state = "PASS" =>
           /\ 2 * (100 * r - h * e.total_hours) <= e.total_hours
           /\ 2 * (h * e.total_hours - 100 * r) <= e.total_hours

\* a result of get_years with 80% of 2019 and of the leap year 2020, wet
\* every other hour: projections 4380 and 4392
C6_AlternatingHoursProjected ==
  /\ ret.kind = "years"
  /\ {2019, 2020} \subseteq DOMAIN ret.value
  /\ ret.value[2019].total_hours = 7008
  /\ ret.value[2019].qa_state = "PASS"
  /\ ret.value[2019].time_of_wetness.cents = 438000
  /\ ret.value[2020].total_hours = 7008
  /\ ret.value[2020].qa_state = "PASS"
  /\ ret.value[2020].time_of_wetness.cents = 439200

\* C7: get_averages() returns valid_years equal to the number of touched
\* years whose qa_state is PASS, never more than the number of touched
\* years, and annual_time_of_wetness equal to the sum of the wet hours over
\* the sum of total_hours, times 8760, rounded to a whole number, both sums
\* over the PASS years only.
C7_Averages ==
  ret.kind = "averages" =>
    LET years == get_years(_data)
        passed == {y \in DOMAIN years : years[y].qa_state = "PASS"}
        wet == [y \in passed |-> count_hours(_data[y]).tow_hours]
        counted == [y \in passed |-> years[y].total_hours]
        RECURSIVE total(_, _)
        total(f, S) ==
          IF S = {} THEN 0
          ELSE LET y == CHOOSE z \in S : TRUE IN f[y] + total(f, S \ {y})
        tow == total(wet, passed)
        n == total(counted, passed)
        annual == ret.value.annual_time_of_wetness
    IN /\ ret.value.valid_years = Cardinality(passed)
       /\ ret.value.valid_years <= Cardinality(DOMAIN _data)
       /\ passed # {} =>
            /\ annual.type = "float"
            /\ annual.cents % 100 = 0
            /\ 2 * (tow * 8760 - (annual.cents \div 100) * n) <= n
            /\ 2 * ((annual.cents \div 100) * n - tow * 8760) <= n

\* a result of get_averages over one passing year and one failing year that
\* holds thousands of hours
C7_FailingYearLeftOut ==
  /\ ret.kind = "averages"
  /\ ret.value.valid_years = 1
  /\ ret.value.annual_time_of_wetness.type = "float"
  /\ \E y \in DOMAIN _data :
       LET n == count_hours(_data[y])
       IN n.total_hours > 1000 /\ ~density_ok(n.total_hours, Len(_data[y]))

\* C8: get_years() and get_averages() return the same results for any two
\* sequences of ingestion calls that are permutations of one another: the
\* result after the calls made equals the result after the same calls made
\* in one fixed order.  Violated: np.mean adds the samples of a slot in the
\* order of their arrival, and float64 addition is not associative.
C8_OrderOfCallsIrrelevant ==
  /\ ret.kind = "years" => ret.value = get_years(replay(calls))
  /\ ret.kind = "averages" => ret.value = get_averages(replay(calls))

\* C9: get_years() and get_averages() leave the accumulator as it was, and a
\* query that follows the same query with no add in between returns an
\* equal result.
C9_QueriesArePure ==
  [][ret'.kind \in {"years", "averages"} =>
       /\ _data' = _data
       /\ ret.kind = ret'.kind => ret'.value = ret.value]_vars

\* a result of get_years over an accumulator that holds counted hours
C9_QueryOverData ==
  /\ ret.kind = "years"
  /\ \E y \in DOMAIN ret.value : ret.value[y].total_hours > 0
  /\ _data # <<>>

\* C10: an add with a timestamp that is not a datetime raises and leaves the
\* accumulator unchanged: no year is created, no sample is stored, and
\* get_years() then returns what it returned before the call.
C10_RejectedAddChangesNothing ==
  [][ret'.kind = "ValueError" =>
       /\ _data' = _data
       /\ calls' = calls
       /\ ret.kind = "years" => get_years(_data') = ret.value]_vars

\* the state after a rejected add on an accumulator that holds samples: the
\* year of the rejected date is absent
C10_RejectedAfterData ==
  /\ ret.kind = "ValueError"
  /\ DOMAIN _data # {}
  /\ \A dt \in NotDatetimes : dt.year \notin DOMAIN _data

C12_LastWriteWins ==
  \A h \in DOMAIN hours :
    LET into == {i \in DOMAIN added : [added[i].dt EXCEPT !.minute = 0] = h}
        last == CHOOSE i \in into : \A j \in into : j <= i
    IN IF into = {} THEN hours[h] = None
       ELSE IF added[last].value = None THEN hours[h] = None
       ELSE hours[h] = [type |-> "float", val |-> added[last].value.val]

\* 5 added at 23:00 and then 10 at 23:20 of the same hour: get_total()
\* returns 10, not 15
C12_SecondValueOfTheHour ==
  /\ ret.kind = "get_total"
  /\ ret.range = 1
  /\ added = << [dt |-> datetime(2021, 12, 31, 23, 0), value |-> int(5)],
                [dt |-> datetime(2021, 12, 31, 23, 20), value |-> int(10)] >>
  /\ ret.value = [type |-> "float", val |-> 10]

\* C13: get_mean(), over the whole grid or over a slice, is the arithmetic
\* mean of the non-null values only.  Violated: get_mean takes every None
\* hour as a 0 and divides by the number of hours, so 0, None, 5 give 5/3.
C13_MeanOfNonNull ==
  ret.kind = "get_mean" =>
    LET keys == hours_not_None(self, Ranges[ret.range].start, Ranges[ret.range].end)
    IN keys # {} =>
         /\ ret.value # None
         /\ ret.value.num * Cardinality(keys) = np_sum(hours, keys) * ret.value.den

\* C14: get_min() and get_max() return the smallest and the largest non-null
\* value of the grid or slice; None hours are not treated as 0.  Violated:
\* get_min takes every None hour as a 0, so 5 and None give a minimum of 0.
C14_MinMaxOfNonNull ==
  ret.kind \in {"get_min", "get_max"} =>
    LET keys == hours_not_None(self, Ranges[ret.range].start, Ranges[ret.range].end)
        values == {hours[h].val : h \in keys}
    IN keys # {} =>
         ret.value = [type |-> "float",
                      val |-> IF ret.kind = "get_min" THEN min(values) ELSE max(values)]

\* C15: get_total(), get_mean(), get_min() and get_max() return None in every
\* state in which no cell holds a non-null value.  Violated: _is_empty is
\* never set back, so once a value has been overwritten by None get_total
\* returns 0.0, get_mean 0.0 and get_min 0.
C15_NoneWhenAllNull ==
  (/\ ret.kind \in {"get_total", "get_mean", "get_min", "get_max"}
   /\ \A h \in DOMAIN hours : hours[h] = None)
    => ret.value = None

\* C16: get_total_by_year() returns, for each calendar year with an hour in
\* the grid, the sum of the non-null values of that year, and a None hour
\* causes no error.  Violated: `years[year] += value` raises TypeError on
\* the first None hour.
C16_TotalByYearSkipsNone ==
  /\ ~(ret.kind = "TypeError" /\ ret.call = "get_total_by_year")
  /\ ret.kind = "get_total_by_year" =>
       /\ DOMAIN ret.value = {h.year : h \in DOMAIN hours}
       /\ \A year \in DOMAIN ret.value :
            ret.value[year].val =
              np_sum(hours, {h \in DOMAIN hours : h.year = year /\ hours[h] # None})

\* C17: get_total_by_year_detailed() returns one entry for every year from
\* the year of start through the year of end, whose count is the number of
\* non-null hours of the year, without raising, also when every hour of a
\* year is None.  Violated: get_max returns None for such a year and
\* float(None) raises TypeError.
C17_DetailedForEveryYear ==
  /\ ~(ret.kind = "TypeError" /\ ret.call = "get_total_by_year_detailed")
  /\ (ret.kind = "get_total_by_year_detailed" /\ _start # None) =>
       /\ DOMAIN ret.value = (_start.year)..(_end.year)
       /\ \A year \in DOMAIN ret.value :
            ret.value[year].count =
              int(Cardinality({h \in DOMAIN hours : h.year = year /\ hours[h] # None}))

C20_OverallScore ==
  ret.kind \in {"analyze_coverage", "assess_year_coverage"} =>
    LET result == ret.value
        length == IF is_leap(result.year_analyzed) THEN 366 ELSE 365
        day_density == quotient(100 * result.days_with_data, length)
    IN /\ result.overall_score =
            mean3(result.seasonal_coverage, result.monthly_coverage, day_density)
       /\ result.adequate_coverage <=> result.overall_score.whole >= adequate_threshold

\* 1 January to 13 December 2023 analyzed against the threshold 90: 347 of
\* 365 days, adequate
C20_HighThresholdMet ==
  /\ ret.kind = "analyze_coverage"
  /\ adequate_threshold = 90
  /\ ret.value.year_analyzed = 2023
  /\ ret.value.days_with_data = 347
  /\ ret.value.adequate_coverage

C22_SeasonalCoverage ==
  ret.kind \in {"analyze_coverage", "assess_year_coverage"} =>
    LET result == ret.value
        leap == is_leap(result.year_analyzed)
        winter == IF leap THEN 90 ELSE 89
        d == 93 * 94 * 89 * (IF leap THEN 90 \div 6 ELSE 1)
        by_season == result.seasonal_breakdown
        sum == by_season["spring"] * (d \div 93) + by_season["summer"] * (d \div 94)
                 + by_season["fall"] * (d \div 89) + by_season["winter"] * (d \div winter)
    IN /\ result.seasonal_coverage = quotient(25 * sum, d)
       /\ result.days_with_data = (IF leap THEN 366 ELSE 365) =>
            /\ result.seasonal_coverage.whole = 100
            /\ result.seasonal_coverage.num = 0

\* every day of the leap year 2024 analyzed: 90 days of winter, 100.0
C22_LeapYearEveryDay ==
  /\ ret.kind = "analyze_coverage"
  /\ ret.value.year_analyzed = 2024
  /\ ret.value.days_with_data = 366
  /\ ret.value.seasonal_breakdown["winter"] = 90
  /\ ret.value.seasonal_coverage.whole = 100
  /\ ret.value.seasonal_coverage.num = 0

\* C23: the days from 1 June to 31 August are counted in summer only: a
\* dataset of days of that span alone, such as the single day 15 June, has
\* seasonal_breakdown summer above 0 and spring, fall and winter equal to 0.
\* Violated: 1 June to 20 June lie in the spring range of season_of.
C23_SummerMonthsInSummerOnly ==
  ( /\ ret.kind = "analyze_coverage"
    /\ ret.value.days_with_data > 0
    /\ \A i \in 1..Len(ret.timestamps) :
         ret.timestamps[i].year = ret.year => ret.timestamps[i].month \in 6..8 )
  => /\ ret.value.seasonal_breakdown["summer"] > 0
     /\ ret.value.seasonal_breakdown["spring"] = 0
     /\ ret.value.seasonal_breakdown["fall"] = 0
     /\ ret.value.seasonal_breakdown["winter"] = 0

\* C24: largest_gap_days is the largest difference between consecutive
\* day-of-year numbers with data: 1 when every day of the year has data,
\* N + 1 when N empty days lie between two runs of days with data, and 0
\* when fewer than two days have data.
C24_LargestGap ==
  /\ ret.kind \in {"analyze_coverage", "assess_year_coverage"} =>
       /\ ret.value.days_with_data < 2 => ret.value.largest_gap_days = 0
       /\ ret.value.days_with_data = (IF is_leap(ret.value.year_analyzed) THEN 366 ELSE 365)
            => ret.value.largest_gap_days = 1
  /\ ret.kind = "analyze_coverage" =>
       LET stamps == ret.timestamps
           in_year == { i \in 1..Len(stamps) : stamps[i].year = ret.year }
           with_data ==
             { days_before_month(ret.year, stamps[i].month) + stamps[i].day : i \in in_year }
           reported == ret.value.largest_gap_days
       IN Cardinality(with_data) >= 2 =>
            \* some two days with data are `reported` apart with reported - 1
            \* empty days between them
            /\ \E a \in with_data :
                 /\ a + reported \in with_data
                 /\ \A k \in 1..(reported - 1) : a + k \notin with_data
            \* and no day with data but the last is followed by more empty days
            /\ \A a \in with_data :
                 (\E b \in with_data : b > a) => \E k \in 1..reported : a + k \in with_data

\* January and November 2023 analyzed: the 273 empty days from 1 February
\* to 31 October are reported as a gap of 274
C24_GapJanuaryToNovember ==
  /\ ret.kind = "analyze_coverage"
  /\ ret.year = 2023
  /\ ret.value.days_with_data = 61
  /\ ret.value.monthly_breakdown[1] = 31
  /\ ret.value.monthly_breakdown[11] = 30
  /\ ret.value.largest_gap_days = 274

\* C25: analyze_coverage(timestamps, year) ignores the timestamps outside
\* year; days_with_data is the number of distinct calendar days of the year
\* with a timestamp, several timestamps of a day counting once and 29
\* February counting in a leap year; monthly_breakdown[m] is the number of
\* those days in month m and monthly_coverage is 100 times the months with
\* data over 12.
C25_DaysOfTheYearAnalyzed ==
  /\ ret.kind \in {"analyze_coverage", "assess_year_coverage"} =>
       LET by_month == ret.value.monthly_breakdown
           with_data == { m \in 1..12 : by_month[m] > 0 }
       IN /\ DOMAIN by_month = 1..12
          /\ ret.value.monthly_coverage.whole = (100 * Cardinality(with_data)) \div 12
          /\ ret.value.monthly_coverage.num * 12
               = ((100 * Cardinality(with_data)) % 12) * ret.value.monthly_coverage.den
  /\ ret.kind = "analyze_coverage" =>
       LET stamps == ret.timestamps
           in_year == { i \in 1..Len(stamps) : stamps[i].year = ret.year }
           dates == { 100 * stamps[i].month + stamps[i].day : i \in in_year }
       IN /\ ret.value.year_analyzed = ret.year
          /\ ret.value.days_with_data = Cardinality(dates)
          /\ \A m \in 1..12 :
               ret.value.monthly_breakdown[m]
                 = Cardinality({ date \in dates : date \div 100 = m })

\* the list of 30 December 2022 to 2 January 2024 with three days of 2023,
\* analyzed for 2023: 3 days, all in January, one month of twelve
C25_OtherYearsIgnored ==
  /\ ret.kind = "analyze_coverage"
  /\ ret.year = 2023
  /\ Len(ret.timestamps) = 7
  /\ \E i \in 1..7 : ret.timestamps[i].year = 2022
  /\ \E i \in 1..7 : ret.timestamps[i].year = 2024
  /\ ret.value.days_with_data = 3
  /\ ret.value.monthly_breakdown[1] = 3
  /\ ret.value.monthly_coverage = [whole |-> 8, num |-> 1, den |-> 3]

\* C26: analyze_coverage of an empty list of timestamps raises nothing and
\* returns days_with_data 0, the count 0 for each of the 12 months and the
\* 4 seasons, overall_score 0.0 and adequate_coverage False, whatever the
\* year and the threshold above 0.
C26_EmptyInput ==
  ( \/ ret.kind = "analyze_coverage" /\ ret.timestamps = <<>>
    \/ ret.kind = "assess_year_coverage" /\ _data = <<>> )
  => /\ ret.value.days_with_data = 0
     /\ \A m \in 1..12 : ret.value.monthly_breakdown[m] = 0
     /\ DOMAIN ret.value.seasonal_breakdown = {"spring", "summer", "fall", "winter"}
     /\ \A s \in {"spring", "summer", "fall", "winter"} : ret.value.seasonal_breakdown[s] = 0
     /\ ret.value.overall_score = [whole |-> 0, num |-> 0, den |-> 1]
     /\ ret.value.adequate_coverage = FALSE

\* the empty list analyzed for the leap year 2024
C26_EmptyListOfLeapYear ==
  /\ ret.kind = "analyze_coverage"
  /\ ret.timestamps = <<>>
  /\ ret.year = 2024
  /\ adequate_threshold > 0
  /\ ret.value.year_analyzed = 2024
  /\ ret.value.days_with_data = 0
  /\ ret.value.adequate_coverage = FALSE

\* C27: a year is a key of get_years() exactly when an add_temperature or
\* add_humidity with a timestamp of that year has succeeded; a year that
\* holds temperature samples only, or humidity samples only, is reported,
\* with its max_hours, total_hours 0, percent_valid 0, qa_state FAIL and
\* time_of_wetness None; and a successful add to one year neither creates
\* nor alters the entry of another year.
C27_YearsAreTheYearsAdded ==
  [][/\ ret'.kind = "years" =>
          /\ DOMAIN ret'.value = { c.dt.year : c \in BagToSet(calls') }
          /\ \A y \in DOMAIN ret'.value :
               LET of_year == { c \in BagToSet(calls') : c.dt.year = y }
               IN (\/ \A c \in of_year : c.op = "add_temperature"
                   \/ \A c \in of_year : c.op = "add_humidity")
                  => /\ ret'.value[y].max_hours \in {8760, 8784}
                     /\ ret'.value[y].total_hours = 0
                     /\ ret'.value[y].percent_valid.num = 0
                     /\ ret'.value[y].qa_state = "FAIL"
                     /\ ret'.value[y].time_of_wetness = None
     /\ calls' # calls =>
          LET added_to ==
                { c.dt.year : c \in { b \in BagToSet(calls') :
                                        CopiesIn(b, calls') > CopiesIn(b, calls) } }
          IN /\ DOMAIN _data' = DOMAIN _data \cup added_to
             \* the rows of the other years, which their entries are computed
             \* from, are as they were
             /\ \A y \in DOMAIN _data \ added_to : _data'[y] = _data[y]
    ]_vars

\* a result of get_years after add_temperature calls alone in 2019 and an
\* ingestion loop in another year: 2019 is reported with no counted hour
C27_TemperatureOnlyYear ==
  /\ ret.kind = "years"
  /\ \A c \in BagToSet(calls) : c.dt.year = 2019 => c.op = "add_temperature"
  /\ \E c \in BagToSet(calls) : c.dt.year = 2019
  /\ \E c \in BagToSet(calls) : c.dt.year # 2019
  /\ ret.value[2019].total_hours = 0
  /\ ret.value[2019].qa_state = "FAIL"
  /\ \E y \in DOMAIN ret.value : ret.value[y].total_hours > 0

\* C28: HourlyGrid.add(t, v) changes the cell of no hour but the hour of t:
\* every hour the grid held keeps its value when the range is extended, and
\* a newly spanned hour other than the hour of t holds the default value
\* given at construction.
C28_AddTouchesOneCell ==
  [][Len(added') = Len(added) + 1 =>
       LET hour == [added'[Len(added')].dt EXCEPT !.minute = 0]
       IN /\ \A h \in DOMAIN hours \ {hour} :
               /\ h \in DOMAIN hours'
               /\ hours'[h] = hours[h]
          /\ \A h \in DOMAIN hours' \ (DOMAIN hours \cup {hour}) :
               hours'[h] = _default_value
          /\ _default_value' = _default_value
    ]_vars

\* the grid HourlyGrid(0.0) after 5 at 23:00 of 31 December 2021 and 10 at
\* 01:00 of 1 January 2022: the first hour still holds 5 and the hour in
\* between the default 0.0
C28_RangeExtendedPastAValue ==
  /\ ret.kind = "add"
  /\ added = << [dt |-> datetime(2021, 12, 31, 23, 0), value |-> int(5)],
                [dt |-> datetime(2022, 1, 1, 1, 0), value |-> int(10)] >>
  /\ hours[datetime(2021, 12, 31, 23, 0)] = [type |-> "float", val |-> 5]
  /\ _default_value = [type |-> "float", val |-> 0]
  /\ hours[datetime(2022, 1, 1, 0, 0)] = _default_value
  /\ hours[datetime(2022, 1, 1, 1, 0)] = [type |-> "float", val |-> 10]

\* C29: samples are only ever appended, so from one get_years() to a later
\* one the total_hours and the percent_valid of a year never decrease, and
\* a year that has reached PASS stays PASS whatever is added afterwards.
C29_HoursNeverDecrease ==
  [][_data' # _data =>
       \A y \in DOMAIN _data :
         /\ y \in DOMAIN _data'
         \* the entry of a year is computed from the rows of the year alone
         /\ _data'[y] # _data[y] =>
              \* the entry get_years builds, the wet hours left uncounted
              LET entry(rows) == year_payload(Len(rows), Len(SelectSeq(rows, has_both)), 0)
                  before == entry(_data[y])
                  after == entry(_data'[y])
              IN /\ after.total_hours >= before.total_hours
                 /\ after.percent_valid.num * before.percent_valid.den
                      >= before.percent_valid.num * after.percent_valid.den
                 /\ before.qa_state = "PASS" => after.qa_state = "PASS"
    ]_vars

\* 2019 after an ingestion loop over its first 6570 hours and a temperature
\* and a humidity added to the next hour: 6571 counted hours, PASS
C29_PassAfterMoreSamples ==
  /\ ret.kind = "None"
  /\ BagCardinality(calls) = 3
  /\ \E c \in BagToSet(calls) : c.op = "fill" /\ c.f.year = 2019 /\ c.f.hours = 6570
  /\ \E c \in BagToSet(calls) : c.op = "add_temperature"
  /\ \E c \in BagToSet(calls) : c.op = "add_humidity"
  /\ get_years(_data)[2019].total_hours = 6571
  /\ get_years(_data)[2019].qa_state = "PASS"

\* C30: in every year entry of get_years() the wet hours counted are at
\* least 0 and at most total_hours, total_hours is at most max_hours,
\* percent_valid lies in [0, 1], and a time_of_wetness that is not None
\* lies in [0, max_hours].
C30_ResultsWithinBounds ==
  ret.kind = "years" =>
    \A y \in DOMAIN ret.value :
      LET e == ret.value[y]
          wet == Len(SelectSeq(_data[y],
                               LAMBDA row : /\ Len(row.t) >= 1
                                            /\ Len(row.rh) >= 1
                                            /\ mean_gt(row.t, 0)
                                            /\ mean_gt(row.rh, 80)))
      IN /\ 0 <= wet
         /\ wet <= e.total_hours
         /\ e.total_hours <= e.max_hours
         /\ e.percent_valid.den > 0
         /\ 0 <= e.percent_valid.num
         /\ e.percent_valid.num <= e.percent_valid.den
         /\ e.time_of_wetness # None =>
              /\ 0 <= e.time_of_wetness.cents
              /\ e.time_of_wetness.cents <= 100 * e.max_hours

\* a result of get_years for 2019 with 6571 counted hours, all of them wet:
\* the projection is the 8760 hours of the year, the upper bound
C30_EveryCountedHourWet ==
  /\ ret.kind = "years"
  /\ 2019 \in DOMAIN ret.value
  /\ ret.value[2019].total_hours = 6571
  /\ ret.value[2019].qa_state = "PASS"
  /\ ret.value[2019].max_hours = 8760
  /\ ret.value[2019].time_of_wetness.cents = 876000

====
